---- MODULE Spec2Model ----
(***************************************************************************)
(* Model of sql/sql_workflow.py (Archery): the request handlers            *)
(* alter_run_date, passed, execute, timing_task and cancel acting on one   *)
(* SqlWorkflow row, its audit record, the django-q schedule registry, the  *)
(* django-q task queue and the notifier.  Handlers run as concurrent       *)
(* requests; every statement that writes is a step of its own, and a       *)
(* `with transaction.atomic()` block is one step that commits or rolls     *)
(* back.                                                                   *)
(***************************************************************************)
EXTENDS Integers, Sequences, FiniteSets, TLC

\* ------------------------------------------------------------------ bounds
MaxReq == 2        \* requests handled in one behaviour
NumProcs == 2      \* requests in flight at the same time
MaxTick == 1       \* clock advances in one behaviour

Procs == 1..NumProcs

\* ---------------------------------------------------------------- time text
\* Wall-clock time is seconds since midnight of a fixed day.  The clock
\* starts at 09:00:00 and advances by half an hour.
ClockStart == 9 * 3600
ClockStep == 30 * 60
None == 0          \* Python None for an optional time

Digit == <<"0", "1", "2", "3", "4", "5", "6", "7", "8", "9">>

\* code point of a character, for Python's str comparison
Ord(c) ==
    CASE c = " " -> 32
      [] c = "-" -> 45
      [] c = "0" -> 48 [] c = "1" -> 49 [] c = "2" -> 50 [] c = "3" -> 51
      [] c = "4" -> 52 [] c = "5" -> 53 [] c = "6" -> 54 [] c = "7" -> 55
      [] c = "8" -> 56 [] c = "9" -> 57
      [] c = ":" -> 58

IsDigit(c) == Ord(c) >= 48 /\ Ord(c) <= 57
DigitVal(c) == Ord(c) - 48

Pad2(n) == <<Digit[(n \div 10) + 1], Digit[(n % 10) + 1]>>

DatePrefix == <<"2", "0", "2", "4", "-", "0", "1", "-", "0", "1", " ">>

\* datetime.datetime.now().strftime("%Y-%m-%d %H:%M:%S")
StrfNow(t) ==
    DatePrefix \o Pad2(t \div 3600) \o <<":">> \o Pad2((t % 3600) \div 60)
               \o <<":">> \o Pad2(t % 60)

\* Python's  a < b  on str: lexicographic by code point, a proper prefix
\* is smaller.
RECURSIVE StrLess(_, _)
StrLess(a, b) ==
    IF b = <<>> THEN FALSE
    ELSE IF a = <<>> THEN TRUE
    ELSE IF Ord(Head(a)) # Ord(Head(b)) THEN Ord(Head(a)) < Ord(Head(b))
    ELSE StrLess(Tail(a), Tail(b))

\* leading run of digits of s, at most two
NumLen(s) ==
    IF Len(s) >= 2 /\ IsDigit(s[1]) /\ IsDigit(s[2]) THEN 2
    ELSE IF Len(s) >= 1 /\ IsDigit(s[1]) THEN 1
    ELSE 0

NumVal(s, n) ==
    IF n = 2 THEN 10 * DigitVal(s[1]) + DigitVal(s[2]) ELSE DigitVal(s[1])

ValueError == -1

\* datetime.datetime.strptime(run_date, "%Y-%m-%d %H:%M") on a text of the
\* fixed day: %H and %M each take one or two digits, nothing may remain.
Strptime(s) ==
    IF Len(s) <= Len(DatePrefix) \/ SubSeq(s, 1, Len(DatePrefix)) # DatePrefix
    THEN ValueError
    ELSE LET r  == SubSeq(s, Len(DatePrefix) + 1, Len(s))
             hl == NumLen(r)
         IN IF hl = 0 \/ Len(r) < hl + 2 \/ r[hl + 1] # ":" THEN ValueError
            ELSE LET m  == SubSeq(r, hl + 2, Len(r))
                     ml == NumLen(m)
                     h  == NumVal(r, hl)
                 IN IF ml = 0 \/ Len(m) # ml \/ h > 23 \/ NumVal(m, ml) > 59
                    THEN ValueError
                    ELSE 3600 * h + 60 * NumVal(m, ml)

\* request.POST.get("run_date"): absent, or one of these texts
NoText == <<>>
RunDateTexts ==
    { DatePrefix \o <<"0", "9", ":", "3", "0">>,
      DatePrefix \o <<"9", ":", "3", "0">>,
      DatePrefix \o <<"1", "0", ":", "3", "0">>,
      DatePrefix \o <<"0", "9", ":", "3", "0", ":", "0", "0">> }

\* ------------------------------------------------------------------- text
\* str.split(","): the pieces of s between commas
RECURSIVE Split(_, _)
Split(s, cur) ==
    IF s = <<>> THEN <<cur>>
    ELSE IF Head(s) = "," THEN <<cur>> \o Split(Tail(s), <<>>)
    ELSE Split(Tail(s), Append(cur, Head(s)))

InSeq(x, sq) == \E i \in 1..Len(sq) : sq[i] = x

PhasePass == <<"P", "a", "s", "s">>
PhaseExecute == <<"E", "x", "e", "c", "u", "t", "e">>
PhaseCancel == <<"C", "a", "n", "c", "e", "l">>

\* values of the system setting notify_phase_control; <<>> is unset or ""
ConfigTexts ==
    { <<>>, PhasePass \o <<",">> \o PhaseExecute }

\* the gate without its default: an unset setting is split like any other
NotifyGate_no_default(cfg, phase) == InSeq(phase, Split(cfg, <<>>))

\* is_notified = (phase in cfg.split(",")) if cfg else True
NotifyGate(cfg, phase) ==
    IF cfg # <<>> THEN InSeq(phase, Split(cfg, <<>>)) ELSE TRUE

\* ------------------------------------------------------------------ actors
Engineer == "alice"
Users == {"alice", "bob", "carol", "dave"}

\* The actors: alice submitted the workflow and holds no permission; bob
\* holds sql.sql_review and sql.sql_execute; carol can review this workflow
\* but holds no static permission; dave holds nothing.
\* user.has_perm(perm): the static permissions of the actors
HasPerm(u, perm) ==
    CASE u = "bob" -> perm \in {"sql.sql_review", "sql.sql_execute"}
      [] OTHER -> FALSE

\* review capability on this workflow, as Audit.can_review decides it
ReviewCap(u) == u \in {"bob", "carol"}

\* ------------------------------------------------------------------- state
VARIABLES
    wf,                   \* the SqlWorkflow row
    audit,                \* its audit record: status, decisions, log
    schedule,             \* django-q schedules, in order of creation
    queue,                \* django-q tasks enqueued for execution
    notified,             \* notifications dispatched
    notify_phase_control, \* the system setting read by SysConfig
    now,                  \* wall clock
    ticks,                \* clock advances so far
    req,                  \* the requests in flight
    nreq,                 \* requests started so far
    last,                 \* how the request that ended last ended
    gate_entries,         \* the entries the setting was written from
    gate_phase,           \* the phase the gate was last evaluated for
    is_notified           \* what the gate last evaluated to

vars == <<wf, audit, schedule, queue, notified, notify_phase_control,
          now, ticks, req, nreq, last, gate_entries, gate_phase,
          is_notified>>

Statuses ==
    {"workflow_manreviewing", "workflow_review_pass", "workflow_queuing",
     "workflow_timingtask", "workflow_finish", "workflow_abort"}

WorkflowId == 1
TimingName == "sqlreview-timing-1"

NoDetail ==
    [status |-> "none", finish_time |-> None,
     run_date_start |-> None, run_date_end |-> None]

\* request.POST.get("cancel_remark"): absent (None) or a text
NoRemark == [present |-> FALSE, text |-> ""]
Remarks ==
    { NoRemark,
      [present |-> TRUE, text |-> ""],
      [present |-> TRUE, text |-> "no longer needed"] }

Idle ==
    [pc |-> "idle", op |-> "none", user |-> "none", workflow_id |-> 0,
     remark |-> NoRemark, run_date |-> None, detail |-> NoDetail]

\* The workflow was submitted, or submitted and approved, before the first
\* request of the behaviour arrives.
Init ==
    /\ \/ /\ wf = [status |-> "workflow_manreviewing", finish_time |-> None,
                   run_date_start |-> None, run_date_end |-> None]
          /\ audit = [current_status |-> "audit_wait", decisions |-> <<>>,
                      logs |-> <<>>]
       \/ /\ wf = [status |-> "workflow_review_pass", finish_time |-> None,
                   run_date_start |-> None, run_date_end |-> None]
          /\ audit = [current_status |-> "audit_success",
                      decisions |-> <<"audit_success">>, logs |-> <<>>]
    /\ schedule = <<>>
    /\ queue = <<>>
    /\ notified = <<>>
    /\ notify_phase_control \in ConfigTexts
    /\ now = ClockStart
    /\ ticks = 0
    /\ req = [p \in Procs |-> Idle]
    /\ nreq = 0
    /\ last = [op |-> "none", outcome |-> "none", why |-> "none"]
    /\ gate_entries = <<>>
    /\ gate_phase = <<>>
    /\ is_notified = FALSE

\* ------------------------------------------------- collaborators of the core
\* Audit.can_review(user, workflow_id, 2)
can_review(u) == ReviewCap(u)

\* can_execute(user, workflow_id)
can_execute(u, w) ==
    /\ HasPerm(u, "sql.sql_execute")
       \/ HasPerm(u, "sql.sql_execute_for_resource_group")
    /\ w.status = "workflow_review_pass"

\* can_timingtask(user, workflow_id)
can_timingtask(u, w) ==
    /\ HasPerm(u, "sql.sql_execute")
       \/ HasPerm(u, "sql.sql_execute_for_resource_group")
    /\ w.status = "workflow_review_pass"

\* can_cancel(user, workflow_id)
can_cancel(u, w) ==
    /\ u = Engineer \/ ReviewCap(u)
    /\ w.status \in {"workflow_manreviewing", "workflow_review_pass",
                     "workflow_queuing", "workflow_timingtask"}

\* on_correct_time_period(workflow_id, run_date=now)
on_correct_time_period(w, t) ==
    /\ w.run_date_start = None \/ w.run_date_start <= t
    /\ w.run_date_end = None \/ t <= w.run_date_end

\* Audit.audit raises unless the audit still waits for a decision
AuditRefuses(a) == a.current_status # "audit_wait"

\* Audit.audit(audit_id, decision, ...): the decision is recorded and the
\* aggregate status becomes result
AuditDecide(a, decision, result) ==
    [a EXCEPT !.current_status = result,
              !.decisions = Append(@, decision)]

\* operation_type_desc of the entries, in English
LogDesc(t) ==
    CASE t = 2 -> "review rejected"
      [] t = 3 -> "cancel execution"
      [] t = 4 -> "timing execution"
      [] t = 5 -> "execute workflow"
      [] t = 6 -> "manual workflow"

\* Audit.add_log(audit_id, operation_type, ...)
add_log(a, t) ==
    [a EXCEPT !.logs = Append(@, [operation_type |-> t,
                                  operation_type_desc |-> LogDesc(t)])]

\* del_schedule(name): no error when absent
del_schedule(reg, name) == SelectSeq(reg, LAMBDA e : e.name # name)

\* add_sql_schedule(name, run_date, workflow_id): the registry is keyed by
\* the name, an entry of the same name is replaced
add_sql_schedule(reg, name, t) ==
    Append(del_schedule(reg, name), [name |-> name, run_date |-> t])

\* the block's statements run without a transaction around them
NotAtomic(before, after, raised) == after

\* `with transaction.atomic()`: what is committed when the block ends
Atomic(before, after, raised) == IF raised THEN before ELSE after

DB == [wf |-> wf, audit |-> audit, schedule |-> schedule]

Commit(db) ==
    /\ wf' = db.wf
    /\ audit' = db.audit
    /\ schedule' = db.schedule

\* the request returns: render(error.html), redirect, or an exception
Finish(p, op, outcome, why) ==
    /\ req' = [req EXCEPT ![p] = Idle]
    /\ last' = [op |-> op, outcome |-> outcome, why |-> why]

Goto(p, pc) ==
    /\ req' = [req EXCEPT ![p].pc = pc]
    /\ UNCHANGED last

Begin(p, r) ==
    /\ req' = [req EXCEPT ![p] = r]
    /\ UNCHANGED last

CanStart(p) ==
    /\ req[p].pc = "idle"
    /\ nreq < MaxReq
    /\ \A q \in Procs : q < p => req[q].pc # "idle"

Env == <<notify_phase_control, now, ticks, gate_entries, gate_phase,
         is_notified>>

\* ---------------------------------------------------------- alter_run_date
\* values of run_date_start / run_date_end a reviewer may post
WindowInputs ==
    { <<None, None>>, <<None, ClockStart>>, <<ClockStart + ClockStep, None>> }

\* alter_run_date saving the row without update_fields: every column of
\* the fresh SqlWorkflow(id=...) instance is written
alter_run_date_full_save(p) ==
    /\ CanStart(p)
    /\ nreq' = nreq + 1
    /\ \E u \in Users, wid \in {0, WorkflowId}, win \in WindowInputs,
          raised \in BOOLEAN :
         LET why == IF ~HasPerm(u, "sql.sql_review") THEN "PermissionDenied"
                    ELSE IF wid = 0 THEN "workflow_id"
                    ELSE IF ~can_review(u) THEN "authority"
                    ELSE IF raised THEN "exception"
                    ELSE "ok"
         IN  /\ wf' = IF why = "ok"
                      THEN [status |-> "workflow_manreviewing",
                            finish_time |-> None,
                            run_date_start |-> win[1],
                            run_date_end |-> win[2]]
                      ELSE wf
             /\ Finish(p, "alter_run_date",
                       IF why = "ok" THEN "ok" ELSE "rejected", why)
    /\ UNCHANGED <<audit, schedule, queue, notified, Env>>

alter_run_date(p) ==
    /\ CanStart(p)
    /\ nreq' = nreq + 1
    /\ \E u \in Users, wid \in {0, WorkflowId}, win \in WindowInputs,
          raised \in BOOLEAN :
         LET why == IF ~HasPerm(u, "sql.sql_review") THEN "PermissionDenied"
                    ELSE IF wid = 0 THEN "workflow_id"
                    ELSE IF ~can_review(u) THEN "authority"
                    ELSE IF raised THEN "exception"
                    ELSE "ok"
         IN  /\ wf' = IF why = "ok"
                      THEN [wf EXCEPT !.run_date_start = win[1],
                                      !.run_date_end = win[2]]
                      ELSE wf
             /\ Finish(p, "alter_run_date",
                       IF why = "ok" THEN "ok" ELSE "rejected", why)
    /\ UNCHANGED <<audit, schedule, queue, notified, Env>>

\* ------------------------------------------------------------------ passed
passed_guard(u, wid) ==
    IF ~HasPerm(u, "sql.sql_review") THEN "PermissionDenied"
    ELSE IF wid = 0 THEN "workflow_id"
    ELSE IF ~can_review(u) THEN "authority"
    ELSE "ok"

passed(p) ==
    /\ CanStart(p)
    /\ nreq' = nreq + 1
    /\ \E u \in Users, wid \in {0, WorkflowId} :
         LET why == passed_guard(u, wid)
         IN  IF why = "ok"
             THEN Begin(p, [Idle EXCEPT !.pc = "passed_tx", !.op = "passed",
                                         !.user = u, !.workflow_id = wid])
             ELSE Finish(p, "passed", "rejected", why)
    /\ UNCHANGED <<wf, audit, schedule, queue, notified, Env>>

\* passed with the comparison of the returned status left out
passed_block_unconditional(db, failAt, result) ==
    LET d1 == [db EXCEPT !.audit = AuditDecide(@, "audit_success", result)]
    IN  IF failAt = 1 \/ AuditRefuses(db.audit) THEN db
        ELSE IF failAt = 2 /\ result = "audit_success" THEN d1
        ELSE [d1 EXCEPT !.wf.status = "workflow_review_pass"]

\* the atomic block of passed: what the block has written when it ends or
\* raises.  failAt = 1: Audit.audit raises, 2: the status save raises.
passed_block(db, failAt, result) ==
    LET refused == failAt = 1 \/ AuditRefuses(db.audit)
        d1 == [db EXCEPT !.audit = AuditDecide(@, "audit_success", result)]
        d2 == IF result = "audit_success"
              THEN [d1 EXCEPT !.wf.status = "workflow_review_pass"]
              ELSE d1
    IN  IF refused THEN db
        ELSE IF failAt = 2 /\ result = "audit_success" THEN d1
        ELSE d2

passed_raises(db, failAt, result) ==
    \/ failAt = 1
    \/ AuditRefuses(db.audit)
    \/ failAt = 2 /\ result = "audit_success"

passed_tx(p) ==
    /\ req[p].pc = "passed_tx"
    /\ \E failAt \in 0..2, result \in {"audit_success", "audit_wait"} :
         LET raised == passed_raises(DB, failAt, result)
         IN  /\ Commit(Atomic(DB, passed_block(DB, failAt, result), raised))
             /\ IF raised
                THEN Finish(p, "passed", "error", "exception")
                ELSE Goto(p, "passed_notify")
    /\ UNCHANGED <<queue, notified, nreq, Env>>

passed_notify(p) ==
    /\ req[p].pc = "passed_notify"
    /\ notified' = IF NotifyGate(notify_phase_control, PhasePass)
                   THEN Append(notified, "sqlreview-pass")
                   ELSE notified
    /\ Finish(p, "passed", "ok", "ok")
    /\ UNCHANGED <<wf, audit, schedule, queue, nreq, Env>>

\* ----------------------------------------------------------------- execute
\* execute with the test of the execution window left out
execute_guard_no_window(u, wid) ==
    IF ~(HasPerm(u, "sql.sql_execute")
         \/ HasPerm(u, "sql.sql_execute_for_resource_group"))
    THEN "PermissionDenied"
    ELSE IF wid = 0 THEN "workflow_id"
    ELSE IF ~can_execute(u, wf) THEN "authority"
    ELSE "ok"

execute_guard(u, wid) ==
    IF ~(HasPerm(u, "sql.sql_execute")
         \/ HasPerm(u, "sql.sql_execute_for_resource_group"))
    THEN "PermissionDenied"
    ELSE IF wid = 0 THEN "workflow_id"
    ELSE IF ~can_execute(u, wf) THEN "authority"
    ELSE IF ~on_correct_time_period(wf, now) THEN "window"
    ELSE "ok"

execute(p) ==
    /\ CanStart(p)
    /\ nreq' = nreq + 1
    /\ \E u \in Users, wid \in {0, WorkflowId},
          mode \in {"auto", "manual", "none"} :
         LET why == execute_guard(u, wid)
         IN  IF why # "ok"
             THEN Finish(p, "execute", "rejected", why)
             ELSE IF mode = "auto"
             THEN Begin(p, [Idle EXCEPT !.pc = "auto_save", !.op = "execute",
                                         !.user = u, !.workflow_id = wid])
             ELSE IF mode = "manual"
             THEN Begin(p, [Idle EXCEPT !.pc = "manual_save",
                                         !.op = "execute", !.user = u,
                                         !.workflow_id = wid])
             ELSE Finish(p, "execute", "ok", "mode")
    /\ UNCHANGED <<wf, audit, schedule, queue, notified, Env>>

\* SqlWorkflow(id, status="workflow_queuing").save(update_fields=["status"])
auto_save(p) ==
    /\ req[p].pc = "auto_save"
    /\ wf' = [wf EXCEPT !.status = "workflow_queuing"]
    /\ Goto(p, "auto_del")
    /\ UNCHANGED <<audit, schedule, queue, notified, nreq, Env>>

auto_del(p) ==
    /\ req[p].pc = "auto_del"
    /\ \E raised \in BOOLEAN :
         IF raised
         THEN /\ Finish(p, "execute", "crash", "del_schedule")
              /\ UNCHANGED schedule
         ELSE /\ schedule' = del_schedule(schedule, TimingName)
              /\ Goto(p, "auto_enqueue")
    /\ UNCHANGED <<wf, audit, queue, notified, nreq, Env>>

\* auto execute going on to its log without enqueuing the job
auto_enqueue_skipped(p) ==
    /\ req[p].pc = "auto_enqueue"
    /\ \E raised \in BOOLEAN :
         IF raised
         THEN /\ Finish(p, "execute", "crash", "async_task")
              /\ UNCHANGED queue
         ELSE /\ UNCHANGED queue
              /\ Goto(p, "auto_log")
    /\ UNCHANGED <<wf, audit, schedule, notified, nreq, Env>>

auto_enqueue(p) ==
    /\ req[p].pc = "auto_enqueue"
    /\ \E raised \in BOOLEAN :
         IF raised
         THEN /\ Finish(p, "execute", "crash", "async_task")
              /\ UNCHANGED queue
         ELSE /\ queue' = Append(queue, "sqlreview-execute")
              /\ Goto(p, "auto_log")
    /\ UNCHANGED <<wf, audit, schedule, notified, nreq, Env>>

\* auto execute logging the entry of the manual mode
auto_log_wrong_type(p) ==
    /\ req[p].pc = "auto_log"
    /\ audit' = add_log(audit, 6)
    /\ Finish(p, "execute", "ok", "auto")
    /\ UNCHANGED <<wf, schedule, queue, notified, nreq, Env>>

auto_log(p) ==
    /\ req[p].pc = "auto_log"
    /\ \E raised \in BOOLEAN :
         IF raised
         THEN /\ Finish(p, "execute", "crash", "add_log")
              /\ UNCHANGED audit
         ELSE /\ audit' = add_log(audit, 5)
              /\ Finish(p, "execute", "ok", "auto")
    /\ UNCHANGED <<wf, schedule, queue, notified, nreq, Env>>

\* SqlWorkflow(id, status="workflow_finish", finish_time=now).save(
\*     update_fields=["status", "finish_time"])
manual_save(p) ==
    /\ req[p].pc = "manual_save"
    /\ wf' = [wf EXCEPT !.status = "workflow_finish", !.finish_time = now]
    /\ Goto(p, "manual_log")
    /\ UNCHANGED <<audit, schedule, queue, notified, nreq, Env>>

manual_log(p) ==
    /\ req[p].pc = "manual_log"
    /\ \E raised \in BOOLEAN :
         IF raised
         THEN /\ Finish(p, "execute", "crash", "add_log")
              /\ UNCHANGED audit
         ELSE /\ audit' = add_log(audit, 6)
              /\ Goto(p, "manual_notify")
    /\ UNCHANGED <<wf, schedule, queue, notified, nreq, Env>>

\* notify_for_execute is called inline: what it raises reaches the caller
manual_notify(p) ==
    /\ req[p].pc = "manual_notify"
    /\ IF NotifyGate(notify_phase_control, PhaseExecute)
       THEN \E raised \in BOOLEAN :
              IF raised
              THEN /\ Finish(p, "execute", "crash", "notify_for_execute")
                   /\ UNCHANGED notified
              ELSE /\ notified' = Append(notified, "execute")
                   /\ Finish(p, "execute", "ok", "manual")
       ELSE /\ UNCHANGED notified
            /\ Finish(p, "execute", "ok", "manual")
    /\ UNCHANGED <<wf, audit, schedule, queue, nreq, Env>>

\* ------------------------------------------------------------- timing_task
timing_guard(u, present, text) ==
    IF ~(HasPerm(u, "sql.sql_execute")
         \/ HasPerm(u, "sql.sql_execute_for_resource_group"))
    THEN "PermissionDenied"
    ELSE IF text = NoText \/ ~present THEN "time"
    ELSE IF StrLess(text, StrfNow(now)) THEN "past"
    ELSE IF ~can_timingtask(u, wf) THEN "authority"
    ELSE IF Strptime(text) = ValueError THEN "ValueError"
    ELSE IF ~on_correct_time_period(wf, Strptime(text)) THEN "window"
    ELSE "ok"

timing_task(p) ==
    /\ CanStart(p)
    /\ nreq' = nreq + 1
    /\ \E u \in Users, present \in BOOLEAN,
          text \in RunDateTexts \cup {NoText} :
         LET why == timing_guard(u, present, text)
         IN  IF why = "ok"
             THEN Begin(p, [Idle EXCEPT !.pc = "timing_tx",
                                         !.op = "timing_task", !.user = u,
                                         !.workflow_id = WorkflowId,
                                         !.run_date = Strptime(text),
                                         !.detail = wf])
             ELSE Finish(p, "timing_task",
                         IF why = "ValueError" THEN "crash" ELSE "rejected",
                         why)
    /\ UNCHANGED <<wf, audit, schedule, queue, notified, Env>>

\* the atomic block of timing_task.  failAt = 1: workflow_detail.save()
\* raises, 2: add_sql_schedule raises, 3: Audit.add_log raises.
timing_block(db, detail, run_date, failAt) ==
    LET d1 == [db EXCEPT !.wf = [detail EXCEPT
                                   !.status = "workflow_timingtask"]]
        d2 == [d1 EXCEPT !.schedule =
                             add_sql_schedule(@, TimingName, run_date)]
        d3 == [d2 EXCEPT !.audit = add_log(@, 4)]
    IN  CASE failAt = 1 -> db
          [] failAt = 2 -> d1
          [] failAt = 3 -> d2
          [] OTHER -> d3

timing_tx(p) ==
    /\ req[p].pc = "timing_tx"
    /\ \E failAt \in 0..3 :
         LET raised == failAt # 0
         IN  /\ Commit(Atomic(DB,
                    timing_block(DB, req[p].detail, req[p].run_date, failAt),
                    raised))
             /\ IF raised
                THEN Finish(p, "timing_task", "error", "exception")
                ELSE Finish(p, "timing_task", "ok", "ok")
    /\ UNCHANGED <<queue, notified, nreq, Env>>

\* ------------------------------------------------------------------ cancel
cancel_guard(u, wid, remark) ==
    IF wid = 0 THEN "workflow_id"
    ELSE IF ~remark.present THEN "remark"
    ELSE IF ~can_cancel(u, wf) THEN "authority"
    ELSE "ok"

cancel(p) ==
    /\ CanStart(p)
    /\ nreq' = nreq + 1
    /\ \E u \in Users, wid \in {0, WorkflowId}, remark \in Remarks :
         LET why == cancel_guard(u, wid, remark)
         IN  IF why = "ok"
             THEN Begin(p, [Idle EXCEPT !.pc = "cancel_tx", !.op = "cancel",
                                         !.user = u, !.workflow_id = wid,
                                         !.remark = remark,
                                         !.detail = wf])
             ELSE Finish(p, "cancel", "rejected", why)
    /\ UNCHANGED <<wf, audit, schedule, queue, notified, Env>>

\* cancel with the status test left out: the gateway is always called
cancel_decision_always_audit(a, detail, u) ==
    IF u = Engineer
    THEN AuditDecide(a, "audit_abort", "audit_abort")
    ELSE AuditDecide(a, "audit_reject", "audit_reject")

\* the first statement of the block: a log entry for a workflow past
\* review, a decision of the Audit Gateway for one under review
cancel_decision(a, detail, u) ==
    IF detail.status # "workflow_manreviewing"
    THEN IF u = Engineer THEN add_log(a, 3) ELSE add_log(a, 2)
    ELSE IF u = Engineer
         THEN AuditDecide(a, "audit_abort", "audit_abort")
         ELSE AuditDecide(a, "audit_reject", "audit_reject")

\* cancel with the sql.sql_review test of the reject branch left out
cancel_never_denied(detail, u) == FALSE

\* raise PermissionDenied: a workflow under review, a non-submitter
\* without sql.sql_review
cancel_denied(detail, u) ==
    /\ detail.status = "workflow_manreviewing"
    /\ u # Engineer
    /\ ~HasPerm(u, "sql.sql_review")

\* that statement raises: the call fails, the gateway refuses, or
\* PermissionDenied
cancel_decision_raises(a, detail, u, failAt) ==
    \/ failAt = 1
    \/ detail.status = "workflow_manreviewing" /\ AuditRefuses(a)
    \/ cancel_denied(detail, u)

\* the atomic block of cancel.  failAt = 1: the decision or log call
\* raises, 2: del_schedule raises, 3: workflow_detail.save() raises.
cancel_block(db, detail, u, failAt) ==
    LET d1 == [db EXCEPT !.audit = cancel_decision(@, detail, u)]
        d2 == IF detail.status = "workflow_timingtask"
              THEN [d1 EXCEPT !.schedule = del_schedule(@, TimingName)]
              ELSE d1
        d3 == [d2 EXCEPT !.wf = [detail EXCEPT !.status = "workflow_abort"]]
    IN  IF cancel_decision_raises(db.audit, detail, u, failAt) THEN db
        ELSE IF failAt = 2 /\ detail.status = "workflow_timingtask" THEN d1
        ELSE IF failAt = 3 THEN d2
        ELSE d3

cancel_raises(db, detail, u, failAt) ==
    \/ cancel_decision_raises(db.audit, detail, u, failAt)
    \/ failAt = 2 /\ detail.status = "workflow_timingtask"
    \/ failAt = 3

cancel_tx(p) ==
    /\ req[p].pc = "cancel_tx"
    /\ \E failAt \in 0..3 :
         LET raised == cancel_raises(DB, req[p].detail, req[p].user, failAt)
         IN  /\ Commit(Atomic(DB,
                    cancel_block(DB, req[p].detail, req[p].user, failAt),
                    raised))
             /\ IF raised
                THEN Finish(p, "cancel", "error",
                            IF cancel_denied(req[p].detail, req[p].user)
                            THEN "PermissionDenied" ELSE "exception")
                ELSE Goto(p, "cancel_notify")
    /\ UNCHANGED <<queue, notified, nreq, Env>>

\* cancel dispatching without looking at the audit status
cancel_notify_unconditional(p) ==
    /\ req[p].pc = "cancel_notify"
    /\ notified' =
         IF NotifyGate(notify_phase_control, PhaseCancel)
         THEN Append(notified, "sqlreview-cancel")
         ELSE notified
    /\ Finish(p, "cancel", "ok", "ok")
    /\ UNCHANGED <<wf, audit, schedule, queue, nreq, Env>>

cancel_notify(p) ==
    /\ req[p].pc = "cancel_notify"
    /\ notified' =
         IF /\ NotifyGate(notify_phase_control, PhaseCancel)
            /\ audit.current_status \in {"audit_abort", "audit_reject"}
         THEN Append(notified, "sqlreview-cancel")
         ELSE notified
    /\ Finish(p, "cancel", "ok", "ok")
    /\ UNCHANGED <<wf, audit, schedule, queue, nreq, Env>>

\* ------------------------------------------------------------------- clock
Tick ==
    /\ ticks < MaxTick
    /\ ticks' = ticks + 1
    /\ now' = now + ClockStep
    /\ UNCHANGED <<wf, audit, schedule, queue, notified,
                   notify_phase_control, req, nreq, last, gate_entries,
                   gate_phase, is_notified>>

Next ==
    \/ Tick
    \/ \E p \in Procs :
         \/ alter_run_date(p)
         \/ passed(p) \/ passed_tx(p) \/ passed_notify(p)
         \/ execute(p) \/ auto_save(p) \/ auto_del(p) \/ auto_enqueue(p)
         \/ auto_log(p) \/ manual_save(p) \/ manual_log(p)
         \/ manual_notify(p)
         \/ timing_task(p) \/ timing_tx(p)
         \/ cancel(p) \/ cancel_tx(p) \/ cancel_notify(p)

Spec == Init /\ [][Next]_vars

\* ---- the notification gate on its own ----

MaxEntries == 2

\* what an administrator may write between the commas of the setting
EntryTexts ==
    { PhasePass, PhaseExecute, PhaseCancel, <<"P", "a", "s">>, <<>> }

RECURSIVE Join(_)
Join(entries) ==
    IF entries = <<>> THEN <<>>
    ELSE IF Len(entries) = 1 THEN entries[1]
    ELSE entries[1] \o <<",">> \o Join(Tail(entries))

InitGate ==
    /\ wf = [status |-> "workflow_review_pass", finish_time |-> None,
             run_date_start |-> None, run_date_end |-> None]
    /\ audit = [current_status |-> "audit_success",
                decisions |-> <<"audit_success">>, logs |-> <<>>]
    /\ schedule = <<>>
    /\ queue = <<>>
    /\ notified = <<>>
    /\ \E n \in 0..MaxEntries :
         gate_entries \in [1..n -> EntryTexts]
    /\ notify_phase_control = Join(gate_entries)
    /\ now = ClockStart
    /\ ticks = 0
    /\ req = [p \in Procs |-> Idle]
    /\ nreq = 0
    /\ last = [op |-> "none", outcome |-> "none", why |-> "none"]
    /\ gate_phase = <<>>
    /\ is_notified = FALSE

\* passed: "Pass" in sys_config.get("notify_phase_control").split(",")
GatePass ==
    /\ gate_phase' = PhasePass
    /\ is_notified' = NotifyGate(notify_phase_control, PhasePass)
    /\ UNCHANGED <<wf, audit, schedule, queue, notified,
                   notify_phase_control, now, ticks, req, nreq, last,
                   gate_entries>>

\* execute: "Execute" in ...
GateExecute ==
    /\ gate_phase' = PhaseExecute
    /\ is_notified' = NotifyGate(notify_phase_control, PhaseExecute)
    /\ UNCHANGED <<wf, audit, schedule, queue, notified,
                   notify_phase_control, now, ticks, req, nreq, last,
                   gate_entries>>

\* cancel: "Cancel" in ...
GateCancel ==
    /\ gate_phase' = PhaseCancel
    /\ is_notified' = NotifyGate(notify_phase_control, PhaseCancel)
    /\ UNCHANGED <<wf, audit, schedule, queue, notified,
                   notify_phase_control, now, ticks, req, nreq, last,
                   gate_entries>>

NextGate == GatePass \/ GateExecute \/ GateCancel

SpecGate == InitGate /\ [][NextGate]_vars

TypeOK ==
    /\ wf.status \in Statuses
    /\ nreq \in 0..MaxReq
    /\ ticks \in 0..MaxTick

\* ======================================================== properties ====
\* steps of the requests, as the properties below name them
Started(p, op) == nreq' = nreq + 1 /\ req'[p] # req[p] /\ req'[p].op = op

Refused(op) ==
    /\ nreq' = nreq + 1
    /\ req' = req
    /\ last'.op = op
    /\ last'.outcome \in {"rejected", "crash"}

Moved(p, pc) == req[p].pc = pc /\ req'[p] # req[p]

Committed(p, pc) == Moved(p, pc) /\ req'[p].pc # "idle"

Quiet == \A p \in Procs : req[p].pc = "idle"

LogEntry(t) == [operation_type |-> t, operation_type_desc |-> LogDesc(t)]

Edges ==
    { <<"workflow_manreviewing", "workflow_review_pass">>,
      <<"workflow_review_pass", "workflow_queuing">>,
      <<"workflow_review_pass", "workflow_finish">>,
      <<"workflow_review_pass", "workflow_timingtask">>,
      <<"workflow_manreviewing", "workflow_abort">>,
      <<"workflow_review_pass", "workflow_abort">>,
      <<"workflow_queuing", "workflow_abort">>,
      <<"workflow_timingtask", "workflow_abort">> }

\* C1: every change of the workflow status follows one of the defined
\* edges, under every interleaving of the actions.
C1_OnlyDefinedEdges ==
    [][wf'.status # wf.status => <<wf.status, wf'.status>> \in Edges]_vars

\* C2: workflow_finish and workflow_abort are terminal: once the status is
\* one of them, no action changes it again.
C2_TerminalStatuses ==
    [][wf.status \in {"workflow_finish", "workflow_abort"}
         => wf'.status = wf.status]_vars

\* C3: for a workflow read as workflow_manreviewing, a cancel by the
\* submitter that commits records exactly one "abort" decision and leaves
\* status workflow_abort; one by a non-submitter commits only with
\* sql.sql_review, records exactly one "reject" decision and leaves
\* workflow_abort; one by an actor who is neither never commits and leaves
\* workflow, audit record and schedule registry unchanged.
C3_CancelUnderReview ==
    [][\A p \in Procs :
         (Moved(p, "cancel_tx")
            /\ req[p].detail.status = "workflow_manreviewing")
         => LET u == req[p].user
            IN  /\ (Committed(p, "cancel_tx") /\ u = Engineer)
                   => /\ audit'.decisions =
                            Append(audit.decisions, "audit_abort")
                      /\ audit'.logs = audit.logs
                      /\ wf'.status = "workflow_abort"
                /\ (Committed(p, "cancel_tx") /\ u # Engineer)
                   => /\ HasPerm(u, "sql.sql_review")
                      /\ audit'.decisions =
                            Append(audit.decisions, "audit_reject")
                      /\ audit'.logs = audit.logs
                      /\ wf'.status = "workflow_abort"
                /\ (u # Engineer /\ ~HasPerm(u, "sql.sql_review"))
                   => /\ req'[p].pc = "idle"
                      /\ last'.outcome = "error"
                      /\ UNCHANGED <<wf, audit, schedule>>]_vars

\* a submitter's cancel of a workflow under review has committed, after a
\* cancel by an actor who is neither submitter nor reviewer was refused
C3_Witness ==
    /\ last = [op |-> "cancel", outcome |-> "error",
               why |-> "PermissionDenied"]
    /\ \E p \in Procs :
         /\ req[p].pc = "cancel_notify"
         /\ req[p].user = Engineer
         /\ req[p].detail.status = "workflow_manreviewing"
         /\ wf.status = "workflow_abort"
         /\ audit.decisions = <<"audit_abort">>

\* C4: for a workflow read with a status other than workflow_manreviewing,
\* a cancel that commits records no decision of the Audit Gateway, appends
\* exactly one log entry (type 3 "cancel execution" for the submitter,
\* type 2 "review rejected" otherwise) and leaves status workflow_abort.
C4_CancelPastReview ==
    [][\A p \in Procs :
         (Committed(p, "cancel_tx")
            /\ req[p].detail.status # "workflow_manreviewing")
         => /\ audit'.decisions = audit.decisions
            /\ audit'.current_status = audit.current_status
            /\ audit'.logs =
                 Append(audit.logs,
                        IF req[p].user = Engineer
                        THEN [operation_type |-> 3,
                              operation_type_desc |-> "cancel execution"]
                        ELSE [operation_type |-> 2,
                              operation_type_desc |-> "review rejected"])
            /\ wf'.status = "workflow_abort"]_vars

\* a reviewer's cancel of an approved workflow has committed: one type-2
\* entry, no further decision
C4_Witness ==
    \E p \in Procs :
      /\ req[p].pc = "cancel_notify"
      /\ req[p].user # Engineer
      /\ req[p].detail.status = "workflow_review_pass"
      /\ wf.status = "workflow_abort"
      /\ audit.logs = <<LogEntry(2)>>
      /\ audit.decisions = <<"audit_success">>

\* C5: approve writes workflow_review_pass only when the aggregate status
\* the Audit Gateway returned is audit_success; otherwise no step of the
\* approve changes the workflow status.
C5_ApproveOnlyOnSuccess ==
    [][\A p \in Procs :
         /\ Moved(p, "passed_tx")
            => wf'.status =
                 IF Committed(p, "passed_tx")
                    /\ audit'.current_status = "audit_success"
                 THEN "workflow_review_pass"
                 ELSE wf.status
         /\ (Started(p, "passed") \/ Moved(p, "passed_notify")
               \/ Refused("passed"))
            => wf' = wf]_vars

\* an approve the gateway answered with a status other than success has
\* committed and the workflow is still under review
C5_Witness ==
    \E p \in Procs :
      /\ req[p].pc = "passed_notify"
      /\ audit.decisions = <<"audit_success">>
      /\ audit.current_status = "audit_wait"
      /\ wf.status = "workflow_manreviewing"

\* C6: schedule rejects every request whose run_date is not strictly
\* greater than the current time; a rejected request changes neither the
\* workflow nor the schedule registry.
C6_ScheduleRejectsPast ==
    [][\A p \in Procs :
         /\ Started(p, "timing_task") => req'[p].run_date > now
         /\ Refused("timing_task") => UNCHANGED <<wf, schedule>>]_vars

LastLogType ==
    IF audit.logs = <<>> THEN 0
    ELSE audit.logs[Len(audit.logs)].operation_type

\* C7: the audit trail never diverges from the status history: when no
\* request is in flight, a status written by auto execute, manual execute,
\* schedule or cancel has the matching entry (5, 6, 4, 3 or 2; for a cancel
\* under review the gateway's abort or reject decision) as the latest of
\* the trail.
C7_TrailMatchesStatus ==
    Quiet =>
      CASE wf.status = "workflow_queuing" -> LastLogType = 5
        [] wf.status = "workflow_finish" -> LastLogType = 6
        [] wf.status = "workflow_timingtask" -> LastLogType = 4
        [] wf.status = "workflow_abort" ->
             \/ LastLogType \in {2, 3}
             \/ audit.current_status \in {"audit_abort", "audit_reject"}
        [] OTHER -> TRUE

InBlock(p) ==
    Moved(p, "passed_tx") \/ Moved(p, "timing_tx") \/ Moved(p, "cancel_tx")

\* C8: in approve, schedule and cancel the transactional block commits all
\* of its writes or none: when it raises, workflow, audit record and
\* schedule registry are as before; otherwise the status write is
\* committed together with its decision, log entry and schedule entry.
C8_BlockAllOrNothing ==
    [][\A p \in Procs :
         InBlock(p) =>
           IF req'[p].pc = "idle" /\ last'.outcome = "error"
           THEN UNCHANGED <<wf, audit, schedule>>
           ELSE CASE req[p].pc = "timing_tx" ->
                       /\ wf'.status = "workflow_timingtask"
                       /\ schedule' # <<>>
                       /\ schedule'[Len(schedule')] =
                            [name |-> TimingName,
                             run_date |-> req[p].run_date]
                       /\ audit'.logs = Append(audit.logs, LogEntry(4))
                  [] req[p].pc = "cancel_tx" ->
                       /\ wf'.status = "workflow_abort"
                       /\ Len(audit'.logs) + Len(audit'.decisions)
                            = Len(audit.logs) + Len(audit.decisions) + 1
                  [] OTHER ->
                       Len(audit'.decisions) = Len(audit.decisions) + 1]_vars

\* the block of a schedule request raised and the workflow is still
\* approved with nothing registered and nothing logged
C8_Witness ==
    /\ last = [op |-> "timing_task", outcome |-> "error",
               why |-> "exception"]
    /\ wf.status = "workflow_review_pass"
    /\ schedule = <<>>
    /\ audit.logs = <<>>

ExecPerm(u) ==
    \/ HasPerm(u, "sql.sql_execute")
    \/ HasPerm(u, "sql.sql_execute_for_resource_group")

\* C9: a request of approve, execute, schedule or cancel gets past its
\* guards only with a workflow id, the actor's authority, a well-formed
\* time and a time inside the execution window; one that fails a guard
\* returns with workflow, audit record, schedule registry, execution queue
\* and notifications unchanged.
C9_GuardFailureWritesNothing ==
    [][/\ \A p \in Procs :
            /\ Started(p, "passed")
               => /\ req'[p].workflow_id # 0
                  /\ HasPerm(req'[p].user, "sql.sql_review")
                  /\ can_review(req'[p].user)
            /\ Started(p, "execute")
               => /\ req'[p].workflow_id # 0
                  /\ ExecPerm(req'[p].user)
                  /\ can_execute(req'[p].user, wf)
                  /\ on_correct_time_period(wf, now)
            /\ Started(p, "timing_task")
               => /\ ExecPerm(req'[p].user)
                  /\ can_timingtask(req'[p].user, wf)
                  /\ req'[p].run_date # ValueError
                  /\ on_correct_time_period(wf, req'[p].run_date)
            /\ Started(p, "cancel")
               => /\ req'[p].workflow_id # 0
                  /\ can_cancel(req'[p].user, wf)
       /\ \A op \in {"passed", "execute", "timing_task", "cancel"} :
            Refused(op)
            => UNCHANGED <<wf, audit, schedule, queue, notified>>]_vars

\* an execute outside the execution window was refused
C9_Witness ==
    /\ last = [op |-> "execute", outcome |-> "rejected", why |-> "window"]
    /\ wf.status = "workflow_review_pass"
    /\ ~on_correct_time_period(wf, now)
    /\ queue = <<>>

\* C10: a cancel whose reason is absent or empty has no side effect: no
\* step of it changes the workflow, the audit record, the schedule
\* registry or the notifications.
C10_EmptyReasonNoEffect ==
    [][\A p \in Procs :
         (/\ req[p].op = "cancel"
          /\ req'[p] # req[p]
          /\ ~req[p].remark.present \/ req[p].remark.text = "")
         => UNCHANGED <<wf, audit, schedule, notified>>]_vars

\* C11: a failure of notification sending in approve, cancel or manual
\* execute neither alters the committed workflow and audit record nor
\* reaches the caller: the notifying step of these requests leaves both
\* unchanged and the request returns without error.
C11_NotifyFailureIsolated ==
    [][\A p \in Procs :
         (Moved(p, "passed_notify") \/ Moved(p, "cancel_notify")
            \/ Moved(p, "manual_notify"))
         => /\ UNCHANGED <<wf, audit>>
            /\ last'.outcome = "ok"]_vars

HasTiming(reg) == \E i \in 1..Len(reg) : reg[i].name = TimingName

Ended(p) == req[p].pc # "idle" /\ req'[p].pc = "idle"

\* C12: after a successful cancel, auto execute or manual execute the
\* schedule registry holds no timing entry of the workflow, and it never
\* holds more than one.
C12_TimingEntryRemoved ==
    [][/\ Len(SelectSeq(schedule', LAMBDA e : e.name = TimingName)) <= 1
       /\ \A p \in Procs :
            (/\ Ended(p)
             /\ req[p].op \in {"cancel", "execute"}
             /\ last'.outcome = "ok")
            => ~HasTiming(schedule')]_vars

\* C13: scenario A: the workflow is approved, the window unbounded, and the
\* only request is an auto execute by an actor with execute authority that
\* returned without error: the status is workflow_queuing, one execution
\* job is enqueued and the trail has one new entry, of type 5.
C13_ScenarioAutoExecute ==
    (/\ nreq = 1
     /\ Quiet
     /\ last = [op |-> "execute", outcome |-> "ok", why |-> "auto"])
    => /\ wf.status = "workflow_queuing"
       /\ queue = <<"sqlreview-execute">>
       /\ audit.logs = <<[operation_type |-> 5,
                          operation_type_desc |-> "execute workflow"]>>
       /\ schedule = <<>>

\* the auto execute of scenario A has returned
C13_Witness ==
    /\ nreq = 1
    /\ Quiet
    /\ last = [op |-> "execute", outcome |-> "ok", why |-> "auto"]
    /\ wf.run_date_start = None
    /\ wf.run_date_end = None
    /\ wf.status = "workflow_queuing"

\* C14: the notification gate depends only on the setting and the phase: an
\* unset or empty setting permits every phase, any other setting permits a
\* phase exactly when the phase is one of its comma-separated entries.
C14_GateFunction ==
    gate_phase # <<>>
    => (is_notified <=>
          IF notify_phase_control = <<>> THEN TRUE
          ELSE \E i \in 1..Len(gate_entries) : gate_entries[i] = gate_phase)

\* the gate has refused a phase under a setting of two entries, one of them
\* a prefix of the phase
C14_Witness ==
    /\ gate_phase = PhasePass
    /\ gate_entries = << <<"P", "a", "s">>, PhaseExecute >>
    /\ ~is_notified

\* C15: alter run date, in whatever status the workflow is, leaves the
\* status, finish_time, audit record and trail, schedule registry, execution
\* queue and notifications unchanged.
C15_AlterRunDateFrame ==
    [][(/\ nreq' = nreq + 1
        /\ req' = req
        /\ last'.op = "alter_run_date")
       => /\ wf'.status = wf.status
          /\ wf'.finish_time = wf.finish_time
          /\ UNCHANGED <<audit, schedule, queue, notified>>]_vars

\* the window of a cancelled workflow has been altered
C15_Witness ==
    /\ Quiet
    /\ last = [op |-> "alter_run_date", outcome |-> "ok", why |-> "ok"]
    /\ wf.status = "workflow_abort"
    /\ wf.run_date_end # None

\* C16: auto execute issues the deletion of the timing entry before it
\* enqueues, and when it enqueues the execution job no timing entry of the
\* workflow is registered.
C16_NoEnqueueWhileScheduled ==
    [][\A p \in Procs :
         /\ (req'[p].pc = "auto_enqueue" /\ req[p].pc # "auto_enqueue")
            => req[p].pc = "auto_del"
         /\ (Moved(p, "auto_enqueue") /\ queue' # queue)
            => ~HasTiming(schedule)]_vars

Dispatched(name) ==
    /\ notified' # notified
    /\ notified'[Len(notified')] = name

\* C17: approve and cancel dispatch their notification only in the step
\* after their transaction committed, never in or after a transaction that
\* rolled back; cancel dispatches only if the audit status read after the
\* commit is abort or reject and the gate permits the Cancel phase.
C17_NotifyAfterCommit ==
    [][/\ Dispatched("sqlreview-pass")
          => /\ \E p \in Procs : Moved(p, "passed_notify")
             /\ NotifyGate(notify_phase_control, PhasePass)
       /\ Dispatched("sqlreview-cancel")
          => /\ \E p \in Procs : Moved(p, "cancel_notify")
             /\ audit.current_status \in {"audit_abort", "audit_reject"}
             /\ NotifyGate(notify_phase_control, PhaseCancel)
       /\ \A p \in Procs :
            /\ (req'[p].pc = "passed_notify" /\ req[p].pc # "passed_notify")
               => /\ req[p].pc = "passed_tx"
                  /\ <<wf, audit>>' # <<wf, audit>>
            /\ (req'[p].pc = "cancel_notify" /\ req[p].pc # "cancel_notify")
               => /\ req[p].pc = "cancel_tx"
                  /\ <<wf, audit>>' # <<wf, audit>>
            /\ (/\ Moved(p, "passed_tx") \/ Moved(p, "cancel_tx")
                /\ req'[p].pc = "idle")
               => /\ last'.outcome = "error"
                  /\ UNCHANGED <<wf, audit, schedule, notified>>]_vars

\* a cancel under review has committed and dispatched its notification
C17_Witness ==
    /\ last = [op |-> "cancel", outcome |-> "ok", why |-> "ok"]
    /\ audit.current_status \in {"audit_abort", "audit_reject"}
    /\ notified # <<>>
    /\ notified[Len(notified)] = "sqlreview-cancel"

HasLog(t) ==
    \E i \in 1..Len(audit.logs) : audit.logs[i].operation_type = t

\* C18: a cancel and an auto execute of the same workflow can both succeed:
\* whenever the trail holds the entry of an accepted cancel of an approved
\* workflow and the entry of an auto execute, an execution job is enqueued
\* for the workflow; C18_Witness is the end of an interleaving in which
\* this happens with the two requests overlapping.
C18_CancelAndExecuteBothSucceed ==
    (HasLog(5) /\ (HasLog(2) \/ HasLog(3)))
    => InSeq("sqlreview-execute", queue)

\* both requests have returned without error; the status is the one the
\* execute saved after the cancel had committed workflow_abort
C18_Witness ==
    /\ Quiet
    /\ nreq = 2
    /\ last.outcome = "ok"
    /\ wf.status = "workflow_queuing"
    /\ queue = <<"sqlreview-execute">>
    /\ HasLog(5)
    /\ HasLog(2) \/ HasLog(3)

\* C19: when a cancel and a schedule request of the workflow have both
\* completed, however their steps interleaved, and the status is
\* workflow_abort, the registry holds no timing entry of the workflow.
C19_AbortLeavesNoTimingEntry ==
    (/\ Quiet
     /\ HasLog(4)
     /\ wf.status = "workflow_abort")
    => ~HasTiming(schedule)

\* C20: when an auto execute ends, by returning or by an exception of
\* del_schedule, async_task or add_log, and the status it saved is
\* workflow_queuing, an execution job is enqueued and the trail holds a
\* type-5 entry.
C20_QueuingHasJobAndLog ==
    [][\A p \in Procs :
         (/\ req[p].pc \in {"auto_del", "auto_enqueue", "auto_log"}
          /\ req'[p].pc = "idle"
          /\ wf'.status = "workflow_queuing")
         => /\ InSeq("sqlreview-execute", queue')
            /\ \E i \in 1..Len(audit'.logs) :
                 audit'.logs[i].operation_type = 5]_vars

====
